---- MODULE Spec2Model ----
(***************************************************************************)
(* SmartSwipe: the recommendation scoring route (POST /api/recommend), the *)
(* outfit route (POST /api/generate-outfit) and the swipe session of the   *)
(* SwipeInterface component, as state machines.                            *)
(*                                                                         *)
(* Scores are exact rationals held as integers in units of 1/Scale.  The   *)
(* embedding vectors are drawn from a universe whose L2 norms are whole    *)
(* numbers, so that cosineSimilarity is computed without rounding.         *)
(***************************************************************************)
EXTENDS Integers, Sequences, FiniteSets, TLC

VARIABLES
  body,        \* scoring: the JSON body of the request to /api/recommend
  imageFeatures, \* scoring: the embedding store (item id -> vector)
  response,    \* scoring: the response of the route, or the "none" record
  previousResponse, \* scoring: the response to the same request sent before, or "none"
  artifact,    \* cache: dataset/image_features.json as it is on disk
  loaded,      \* cache: the module variable imageFeatures is not null
  loads,       \* cache: how many times loadImageFeatures has been called
  inFlight,    \* cache: requests awaiting request.json()
  served,      \* cache: requests answered
  likedItems,  \* outfit: the likedItems field of the request body
  groqApiKey,  \* outfit: whether GROQ_API_KEY is set in the environment
  outfitPc,    \* outfit: "idle", "calling" (awaiting the LLM) or "done"
  groqReply,   \* outfit: what the LLM endpoint answered
  outfitResponse, \* outfit: the response of the route
  swipedItemIds,  \* session: SwipeInterface state, the ids swiped so far
  currentCategory, \* session: SwipeInterface state, "" for null
  itemsInCurrentCategory, \* session: SwipeInterface state, the displayed candidate list
  currentIndex,   \* session: SwipeInterface state
  isAnalyzing,    \* session: SwipeInterface state
  isProcessingAction, \* session: SwipeInterface state
  loading,        \* session: SwipeInterface state
  itemsShownInCurrentCategory, \* session: SwipeInterface state
  wishlist,       \* session: DashboardPage state likedItems (the wishlist prop), a set of ids
  rejectedItems,  \* session: DashboardPage state rejectedItems, a set of ids
  savedSwiped,    \* session: the swiped ids the database held at mount
  userTaste,      \* session: the items this user likes; the user dislikes the others
  swipedLoadPending, \* session: GET /api/user/swiped in flight
  pendingFetches, \* session: fetchItems runs awaiting /api/items, each with its closure
  pendingLoads,   \* session: loadCategoryItems runs awaiting /api/recommend
  pendingPrefs,   \* session: handleLike / handleReject runs awaiting their POST
  pendingTimer,   \* session: the 400 ms timer of handleAction, or NoTimer
  lastEvent       \* session: the handler that ran last, with what it did

scoreVars == <<body, imageFeatures, response, previousResponse>>
cacheVars == <<artifact, loaded, loads, inFlight, served>>
outfitVars == <<likedItems, groqApiKey, outfitPc, groqReply, outfitResponse>>
sessionVars == <<swipedItemIds, currentCategory, itemsInCurrentCategory, currentIndex,
                 isAnalyzing, isProcessingAction, loading, itemsShownInCurrentCategory,
                 wishlist, rejectedItems, savedSwiped, userTaste, swipedLoadPending,
                 pendingFetches, pendingLoads, pendingPrefs, pendingTimer, lastEvent>>
vars == <<body, imageFeatures, response, previousResponse,
          artifact, loaded, loads, inFlight, served,
          likedItems, groqApiKey, outfitPc, groqReply, outfitResponse,
          swipedItemIds, currentCategory, itemsInCurrentCategory, currentIndex,
          isAnalyzing, isProcessingAction, loading, itemsShownInCurrentCategory,
          wishlist, rejectedItems, savedSwiped, userTaste, swipedLoadPending,
          pendingFetches, pendingLoads, pendingPrefs, pendingTimer, lastEvent>>

----------------------------------------------------------------------------
(* Bounds of the scoring inputs *)
MaxCands == 2
MaxRefs == 2

(* Bounds of the swipe session: the catalog, and the orders a client-side *)
(* shuffle is sampled from                                                 *)
DressCount == 6
HatCount == 1
MaxShuffles == 2

----------------------------------------------------------------------------
(* Helpers on sequences *)

Max2(a, b) == IF a >= b THEN a ELSE b

RECURSIVE SumSeq(_)
SumSeq(s) == IF s = <<>> THEN 0 ELSE Head(s) + SumSeq(Tail(s))

Range(s) == {s[i] : i \in DOMAIN s}

\* All sequences over S of length <= n without repeated elements
NoDupSeqs(S, n) ==
  {s \in UNION {[1..k -> S] : k \in 0..n} : \A i, j \in DOMAIN s : i # j => s[i] # s[j]}

\* All orderings of the elements of sequence s
Orderings(s) ==
  {p \in [DOMAIN s -> Range(s)] : \A i, j \in DOMAIN s : i # j => p[i] # p[j]}

\* Array.prototype.filter
RECURSIVE SelectIn(_, _)
SelectIn(s, S) ==
  IF s = <<>> THEN <<>>
  ELSE IF Head(s) \in S THEN <<Head(s)>> \o SelectIn(Tail(s), S)
       ELSE SelectIn(Tail(s), S)

----------------------------------------------------------------------------
(* Score arithmetic: a score x is held as the integer x * Scale *)

RECURSIVE Gcd(_, _)
Gcd(a, b) == IF b = 0 THEN a ELSE Gcd(b, a % b)

RECURSIVE LcmUpTo(_)
LcmUpTo(n) == IF n <= 1 THEN 1 ELSE (LcmUpTo(n - 1) * n) \div Gcd(LcmUpTo(n - 1), n)

\* every average is taken over at most MaxDen numbers; cosines are multiples of
\* 1/25 and the penalty weight is 1/2
MaxDen == Max2(Max2(MaxCands, MaxRefs), DressCount + HatCount)
Scale == 50 * LcmUpTo(MaxDen)

NoFeatureScore == -2
NoWishlistScore == -1

\* exact square root of a perfect square
ISqrt(n) == CHOOSE r \in 0..n : r * r = n

\* The universe of embedding vectors: whole-number norms, one of another length,
\* one of norm 0, one opposite to another
Vectors == {<<1, 0>>, <<0, 1>>, <<3, 4>>, <<-1, 0>>, <<0, 0>>, <<1>>}

DotProduct(vecA, vecB) == SumSeq([i \in DOMAIN vecA |-> vecA[i] * vecB[i]])

\* a similarity that takes vectors of different length, or of norm 0, as alike
cosineSimilarity_Unguarded(vecA, vecB) ==
  IF Len(vecA) # Len(vecB) THEN Scale
  ELSE LET dotProduct == DotProduct(vecA, vecB)
           normA == DotProduct(vecA, vecA)
           normB == DotProduct(vecB, vecB)
       IN IF normA = 0 \/ normB = 0 THEN Scale
          ELSE (dotProduct * Scale) \div (ISqrt(normA) * ISqrt(normB))

cosineSimilarity(vecA, vecB) ==
  IF Len(vecA) # Len(vecB) THEN 0
  ELSE LET dotProduct == DotProduct(vecA, vecB)
           normA == DotProduct(vecA, vecA)
           normB == DotProduct(vecB, vecB)
       IN IF normA = 0 \/ normB = 0 THEN 0
          ELSE (dotProduct * Scale) \div (ISqrt(normA) * ISqrt(normB))

----------------------------------------------------------------------------
(* The reference sets: the liked / rejected items that have an embedding *)

getWishlistFeatures(wishlistItems, featuresMap) == SelectIn(wishlistItems, DOMAIN featuresMap)

getRejectedFeatures(rejectedItemsList, featuresMap) ==
  SelectIn(rejectedItemsList, DOMAIN featuresMap)

----------------------------------------------------------------------------
(* findSimilarItems *)

\* similarity of a candidate to each reference by the vectors alone
Similarities_NoSelfMatch(candidate, refs, featuresMap) ==
  [i \in DOMAIN refs |-> cosineSimilarity(featuresMap[refs[i]], featuresMap[candidate])]

\* similarity of a candidate to each reference, a reference with the candidate's
\* own id counting as 1.0
Similarities(candidate, refs, featuresMap) ==
  [i \in DOMAIN refs |->
     IF candidate = refs[i] THEN Scale
     ELSE cosineSimilarity(featuresMap[refs[i]], featuresMap[candidate])]

Average(xs) == SumSeq(xs) \div Len(xs)

\* a final score that subtracts the whole rejected average
FinalScore_FullPenalty(candidate, wishlistFeatures, rejectedFeatures, featuresMap) ==
  IF candidate \notin DOMAIN featuresMap THEN NoFeatureScore * Scale
  ELSE LET avgSimilarity == Average(Similarities(candidate, wishlistFeatures, featuresMap))
           penalty == IF Len(rejectedFeatures) > 0
                      THEN Average(Similarities(candidate, rejectedFeatures, featuresMap))
                      ELSE 0
       IN avgSimilarity - penalty

\* the final score of one candidate when the liked reference set is not empty
FinalScore(candidate, wishlistFeatures, rejectedFeatures, featuresMap) ==
  IF candidate \notin DOMAIN featuresMap THEN NoFeatureScore * Scale
  ELSE LET avgSimilarity == Average(Similarities(candidate, wishlistFeatures, featuresMap))
           penalty == IF Len(rejectedFeatures) > 0
                      THEN Average(Similarities(candidate, rejectedFeatures, featuresMap))
                      ELSE 0
       IN avgSimilarity - (penalty \div 2)

\* an insertion that puts an item before the items of equal score
RECURSIVE InsertDesc_TiesFirst(_, _)
InsertDesc_TiesFirst(x, sorted) ==
  IF sorted = <<>> THEN <<x>>
  ELSE IF Head(sorted).score > x.score
       THEN <<Head(sorted)>> \o InsertDesc_TiesFirst(x, Tail(sorted))
       ELSE <<x>> \o sorted

\* Array.prototype.sort((a, b) => b.score - a.score): stable, highest first
RECURSIVE InsertDesc(_, _)
InsertDesc(x, sorted) ==
  IF sorted = <<>> THEN <<x>>
  ELSE IF Head(sorted).score >= x.score
       THEN <<Head(sorted)>> \o InsertDesc(x, Tail(sorted))
       ELSE <<x>> \o sorted

RECURSIVE SortDesc(_)
SortDesc(s) ==
  IF s = <<>> THEN <<>>
  ELSE InsertDesc(s[Len(s)], SortDesc(SubSeq(s, 1, Len(s) - 1)))

RECURSIVE FilterAbove(_, _)
FilterAbove(s, bound) ==
  IF s = <<>> THEN <<>>
  ELSE IF Head(s).score > bound THEN <<Head(s)>> \o FilterAbove(Tail(s), bound)
       ELSE FilterAbove(Tail(s), bound)

\* a sentinel branch that does not tell the candidates without an embedding apart
SentinelScores_AllAlike(allItems, featuresMap, excludeIds) ==
  LET kept == SelectIn(allItems, Range(allItems) \ excludeIds)
  IN [i \in DOMAIN kept |-> [id |-> kept[i], score |-> NoWishlistScore * Scale]]

\* the branch taken when no liked item has an embedding: sentinels, input order
SentinelScores(allItems, featuresMap, excludeIds) ==
  LET kept == SelectIn(allItems, Range(allItems) \ excludeIds)
  IN [i \in DOMAIN kept |->
        [id |-> kept[i],
         score |-> IF kept[i] \in DOMAIN featuresMap
                   THEN NoWishlistScore * Scale ELSE NoFeatureScore * Scale]]

AggregatedScores(allItems, wishlistFeatures, rejectedFeatures, featuresMap, excludeIds) ==
  LET kept == SelectIn(allItems, Range(allItems) \ excludeIds)
  IN SortDesc([i \in DOMAIN kept |->
        [id |-> kept[i],
         score |-> FinalScore(kept[i], wishlistFeatures, rejectedFeatures, featuresMap)]])

findSimilarItems(allItems, wishlistFeatures, rejectedFeatures, featuresMap, excludeIds) ==
  IF Len(wishlistFeatures) = 0
  THEN SentinelScores(allItems, featuresMap, excludeIds)
  ELSE LET aggregatedScores ==
             AggregatedScores(allItems, wishlistFeatures, rejectedFeatures, featuresMap, excludeIds)
           filteredScores == FilterAbove(aggregatedScores, 0)
       IN IF Len(filteredScores) > 0 THEN filteredScores
          ELSE FilterAbove(aggregatedScores, -1 * Scale)

----------------------------------------------------------------------------
(* POST /api/recommend.  A list field of the body is a record: kind "list"  *)
(* with its items, kind "missing" (undefined / null), or kind "noniterable" *)
(* (a number or a plain object).  The caller holds a valid token.           *)

List(items) == [kind |-> "list", items |-> items]
Missing == [kind |-> "missing", items |-> <<>>]
NonIterable == [kind |-> "noniterable", items |-> <<>>]

\* a random fallback that gives every candidate the same score
RandomItems_Flat(allItems) ==
  {[i \in DOMAIN p |-> [id |-> p[i], score |-> Scale]] : p \in Orderings(allItems)}

\* the random fallback: any order, scores 1 - index / length
RandomItems(allItems) ==
  {[i \in DOMAIN p |-> [id |-> p[i], score |-> Scale - ((i - 1) * Scale) \div Len(p)]]
     : p \in Orderings(allItems)}

OkResponse(items, method) == [status |-> 200, items |-> items, method |-> method]
ErrorResponse(status) == [status |-> status, items |-> <<>>, method |-> "error"]

\* `wishlist || []`
OrEmpty(field) == IF field.kind = "missing" THEN List(<<>>) ELSE field

\* the handler once the candidate list is known to be an array
Recommendations(b, featuresMap) ==
  LET allItems == b.allItemsInCategory.items
      wl == OrEmpty(b.wishlist)
      rj == OrEmpty(b.rejectedItems)
  IN IF DOMAIN featuresMap = {}
     THEN {OkResponse(items, "random") : items \in RandomItems(allItems)}
     ELSE IF wl.kind = "noniterable" \/ rj.kind = "noniterable"
          \* for...of throws a TypeError; the catch block answers at random
          THEN {OkResponse(items, "random") : items \in RandomItems(allItems)}
          ELSE LET wishlistFeatures == getWishlistFeatures(wl.items, featuresMap)
                   rejectedFeatures == getRejectedFeatures(rj.items, featuresMap)
                   scoredItems == findSimilarItems(allItems, wishlistFeatures,
                                                   rejectedFeatures, featuresMap, {})
               IN {OkResponse(scoredItems,
                     IF Len(wishlistFeatures) > 0 THEN "visual-similarity" ELSE "random")}

\* a handler that would default the candidate list as it defaults the others
POST_DefaultsCandidates(b, featuresMap) ==
  Recommendations([b EXCEPT !.allItemsInCategory = List(b.allItemsInCategory.items)],
                  featuresMap)

\* the set of responses the route can give to a body, given the store; the
\* request carries a valid token
POST(b, featuresMap) ==
  IF b.allItemsInCategory.kind # "list"
  THEN {ErrorResponse(400)}
  ELSE Recommendations(b, featuresMap)

----------------------------------------------------------------------------
(* The module-level cache of the embeddings.  The file on disk is missing,  *)
(* holds text that JSON.parse rejects, or holds a JSON object of embeddings *)

MaxRequests == 3

FileMissing == [kind |-> "missing", features |-> <<>>]
FileCorrupt == [kind |-> "corrupt", features |-> <<>>]
FileJson(features) == [kind |-> "json", features |-> features]

\* loadImageFeatures: the map read from the file, or the error JSON.parse throws
loadImageFeatures(file) ==
  CASE file.kind = "missing" -> [threw |-> FALSE, featuresMap |-> <<>>]
    [] file.kind = "corrupt" -> [threw |-> TRUE, featuresMap |-> <<>>]
    [] file.kind = "json" -> [threw |-> FALSE, featuresMap |-> file.features]

\* getImageFeatures: `if (!imageFeatures) imageFeatures = loadImageFeatures()`; a Map,
\* empty or not, is truthy.  The result says whether the file was read, whether
\* that threw, the value of the module variable afterwards and whether it is set.
getImageFeatures(file, isLoaded, cachedMap) ==
  IF isLoaded
  THEN [called |-> FALSE, threw |-> FALSE, isLoaded |-> TRUE, featuresMap |-> cachedMap]
  ELSE LET out == loadImageFeatures(file)
       IN [called |-> TRUE, threw |-> out.threw, isLoaded |-> ~out.threw,
           featuresMap |-> out.featuresMap]

----------------------------------------------------------------------------
(* The scoring specification: one request, any body, any store *)

ItemIds == {"A", "B", "C"}

Stores == UNION {[S -> Vectors] : S \in SUBSET ItemIds}

CandidateFields == {List(s) : s \in NoDupSeqs(ItemIds, MaxCands)} \cup {Missing, NonIterable}
\* a score averages over a reference list, so its order has no effect: the liked
\* and rejected lists are drawn in one order per set of ids
ReferenceFields ==
  {List(SelectIn(<<"A", "B", "C">>, T)) : T \in {U \in SUBSET ItemIds : Cardinality(U) <= MaxRefs}}
    \cup {Missing, NonIterable}

NoResponse == [status |-> 0, items |-> <<>>, method |-> "none"]

----------------------------------------------------------------------------
(* POST /api/generate-outfit.  An item is a record of its id and category. *)

NoReply == [kind |-> "none", ids |-> <<>>]
NoOutfitResponse == [status |-> 0, outfit |-> <<>>, method |-> "none"]

MaxLiked == 3
MaxOutfitIds == 2
FallbackCap == 5
MinLikedItems == 2

OutfitItems ==
  {[id |-> "o1", category |-> "shirt"], [id |-> "o2", category |-> "Shirt"],
   [id |-> "o3", category |-> "pants"], [id |-> "o4", category |-> "hat"]}

\* a liked list of six items of six categories, one more than the fallback keeps
WardrobeOfSix ==
  <<[id |-> "o1", category |-> "shirt"], [id |-> "o3", category |-> "pants"],
    [id |-> "o4", category |-> "hat"], [id |-> "o5", category |-> "shoes"],
    [id |-> "o6", category |-> "skirt"], [id |-> "o7", category |-> "dress"]>>

\* a validation that only refuses a list with no item
InsufficientInput_OnlyEmpty(field) == field.kind # "list" \/ Len(field.items) < 1

\* !likedItems || !Array.isArray(likedItems) || likedItems.length < 2
InsufficientInput(field) == field.kind # "list" \/ Len(field.items) < MinLikedItems

\* String.prototype.toLowerCase on the category names in use
ToLowerCase(c) == IF c = "Shirt" THEN "shirt" ELSE c

\* a selection that keeps every item
OnePerCategory_KeepAll(items, seen) == items

\* `new Map()` filled with the first item of each lower-cased category, then
\* Array.from(map.values()): first-seen order
RECURSIVE OnePerCategory(_, _)
OnePerCategory(items, seen) ==
  IF items = <<>> THEN <<>>
  ELSE LET category == ToLowerCase(Head(items).category)
       IN IF category \in seen THEN OnePerCategory(Tail(items), seen)
          ELSE <<Head(items)>> \o OnePerCategory(Tail(items), seen \cup {category})

\* a fallback without the cap
FallbackOutfit_Uncapped(liked) == OnePerCategory(liked, {})

FallbackOutfit(liked) ==
  LET perCategory == OnePerCategory(liked, {})
  IN SubSeq(perCategory, 1, IF Len(perCategory) < FallbackCap THEN Len(perCategory) ELSE FallbackCap)

FallbackResponse(liked) == [status |-> 200, outfit |-> FallbackOutfit(liked), method |-> "fallback"]
OutfitError(status) == [status |-> status, outfit |-> <<>>, method |-> "error"]

\* itemMap.get(id): the liked item of that id (the last one, were ids repeated)
ItemOfId(liked, id) ==
  liked[CHOOSE i \in DOMAIN liked : liked[i].id = id /\ \A j \in DOMAIN liked : liked[j].id = id => j <= i]

\* the part of the handler that runs once the LLM's answer is parsed
ValidatedOutfit(liked, requestedIds) ==
  LET validItemIds == {liked[i].id : i \in DOMAIN liked}
      outfitIds == SelectIn(requestedIds, validItemIds)
  IN IF Len(outfitIds) = 0 THEN FallbackResponse(liked)
     ELSE LET outfitItems == [i \in DOMAIN outfitIds |-> ItemOfId(liked, outfitIds[i])]
          IN [status |-> 200, outfit |-> OnePerCategory(outfitItems, {}), method |-> "groq"]

\* the handler from the LLM's answer on
AfterGroq(liked, reply) ==
  CASE reply.kind = "http_error" -> OutfitError(500)    \* !groqResponse.ok
    [] reply.kind = "network_error" -> OutfitError(500) \* fetch rejects: the outer catch
    [] reply.kind = "no_content" -> OutfitError(500)
    [] reply.kind = "unparseable" -> FallbackResponse(liked)
    [] reply.kind = "outfit_not_array" -> ValidatedOutfit(liked, <<>>)
    [] reply.kind = "outfit" -> ValidatedOutfit(liked, reply.ids)

ReplyIds == {"o1", "o2", "o3", "o4", "zz"}

GroqReplies ==
  {[kind |-> k, ids |-> <<>>] :
      k \in {"http_error", "network_error", "no_content", "unparseable", "outfit_not_array"}}
  \cup {[kind |-> "outfit", ids |-> s] : s \in UNION {[1..n -> ReplyIds] : n \in 0..MaxOutfitIds}}

LikedFields ==
  {List(s) : s \in NoDupSeqs(OutfitItems, MaxLiked)} \cup {List(WardrobeOfSix), Missing, NonIterable}

----------------------------------------------------------------------------
(* The swipe session: SwipeInterface (the authenticated component) inside   *)
(* DashboardPage.  An item id is <<category, n>>, the "category/uuid" of    *)
(* the catalog.  A handler reads the state of the render that created it:   *)
(* every request in flight and the timer carry that closure.  The state     *)
(* allItemsInCategory is written and never read, so it is left out; the     *)
(* caller holds a token throughout.                                         *)

ITEMS_PER_CATEGORY == 5
RejectionThreshold == (3 * Scale) \div 10

NoCategory == ""
Categories == <<"dress", "hat">>   \* Object.keys(itemsByCategory).sort()

CategoryCount(category) == IF category = "dress" THEN DressCount ELSE HatCount

\* data.itemsByCategory[category]
ItemsByCategory(category) == [i \in 1..CategoryCount(category) |-> <<category, i>>]

AllItems == ItemsByCategory("dress") \o ItemsByCategory("hat")

\* dataset/image_features.json for this catalog: every fourth item has no embedding
\* and the hats start two places further on in the cycle of vectors
FeatureSlot(id) == (IF id[1] = "dress" THEN id[2] ELSE id[2] + 2) % 4
SessionFeatures ==
  [id \in {x \in Range(AllItems) : FeatureSlot(x) # 0} |->
     CASE FeatureSlot(id) = 1 -> <<1, 0>>
       [] FeatureSlot(id) = 2 -> <<3, 4>>
       [] FeatureSlot(id) = 3 -> <<0, 1>>]

\* the items of a set, in catalog order
SeqOfSet(S) == SelectIn(AllItems, S)

\* allItems.filter(item => !swiped.has(item.id))
Available(category, swiped) ==
  SelectIn(ItemsByCategory(category), Range(ItemsByCategory(category)) \ swiped)

\* [...items].sort(() => Math.random() - 0.5): the orders sampled are rotations
Rotate(seq, k) == [i \in DOMAIN seq |-> seq[((i - 1 + k) % Len(seq)) + 1]]
Shuffles(seq) ==
  IF seq = <<>> THEN {<<>>}
  ELSE {Rotate(seq, k) : k \in 0..((IF Len(seq) < MaxShuffles THEN Len(seq) ELSE MaxShuffles) - 1)}

NoTimer == [item |-> <<>>, newItemsShown |-> 0, items |-> <<>>,
            cl |-> [swipedItemIds |-> {}, currentCategory |-> NoCategory,
                    wishlist |-> {}, rejectedItems |-> {}]]

\* what the handler that ran last did: its name and, for a scoring pass, the items
\* it called onReject for and whether the scores it read were similarity scores
Event(name) == [name |-> name, autoRejected |-> {}, genuine |-> FALSE]

\* the session state as one record, for the handlers to transform
Cur ==
  [swipedItemIds |-> swipedItemIds, currentCategory |-> currentCategory,
   itemsInCurrentCategory |-> itemsInCurrentCategory, currentIndex |-> currentIndex,
   isAnalyzing |-> isAnalyzing, isProcessingAction |-> isProcessingAction,
   loading |-> loading, itemsShownInCurrentCategory |-> itemsShownInCurrentCategory,
   wishlist |-> wishlist, rejectedItems |-> rejectedItems,
   swipedLoadPending |-> swipedLoadPending,
   pendingFetches |-> pendingFetches, pendingLoads |-> pendingLoads,
   pendingPrefs |-> pendingPrefs, pendingTimer |-> pendingTimer]

\* what the handlers of a render close over
ClosureOf(r) ==
  [swipedItemIds |-> r.swipedItemIds, currentCategory |-> r.currentCategory,
   wishlist |-> r.wishlist, rejectedItems |-> r.rejectedItems]

\* the fetchItems effect: its dependencies are currentCategory and swipedItemIds.size
WithEffects(old, new) ==
  IF new.currentCategory # old.currentCategory
       \/ Cardinality(new.swipedItemIds) # Cardinality(old.swipedItemIds)
  THEN [new EXCEPT !.pendingFetches = @ \cup {ClosureOf(new)}]
  ELSE new

Commit(old, new, event) ==
  \E n \in {WithEffects(old, new)} :
     /\ swipedItemIds' = n.swipedItemIds
     /\ currentCategory' = n.currentCategory
     /\ itemsInCurrentCategory' = n.itemsInCurrentCategory
     /\ currentIndex' = n.currentIndex
     /\ isAnalyzing' = n.isAnalyzing
     /\ isProcessingAction' = n.isProcessingAction
     /\ loading' = n.loading
     /\ itemsShownInCurrentCategory' = n.itemsShownInCurrentCategory
     /\ wishlist' = n.wishlist
     /\ rejectedItems' = n.rejectedItems
     /\ swipedLoadPending' = n.swipedLoadPending
     /\ pendingFetches' = n.pendingFetches
     /\ pendingLoads' = n.pendingLoads
     /\ pendingPrefs' = n.pendingPrefs
     /\ pendingTimer' = n.pendingTimer
     /\ lastEvent' = event
     /\ UNCHANGED <<savedSwiped, userTaste>>

\* loadCategoryItems up to its await
loadCategoryItems(r, category, cl) ==
  IF Available(category, cl.swipedItemIds) = <<>>
  THEN [r EXCEPT !.itemsInCurrentCategory = <<>>]
  ELSE [r EXCEPT !.isAnalyzing = TRUE,
                 !.pendingLoads = @ \cup {[category |-> category, cl |-> cl]}]

\* the first category, in sorted order, with an item not swiped
FirstCategoryWithItems(swiped) ==
  LET hits == {k \in DOMAIN Categories : Available(Categories[k], swiped) # <<>>}
  IN IF hits = {} THEN NoCategory
     ELSE Categories[CHOOSE k \in hits : \A h \in hits : k <= h]

\* a search that starts over from the first category instead of after the current one
findNextCategory_FromFirst(cl) == FirstCategoryWithItems(cl.swipedItemIds)

findNextCategoryWithItems(cl) ==
  LET n == Len(Categories)
      at == {k \in DOMAIN Categories : Categories[k] = cl.currentCategory}
      \* categories.indexOf(currentCategory) + 1, counted from 0
      startIndex == IF at = {} THEN 0 ELSE CHOOSE k \in at : TRUE
      CategoryAt(i) == Categories[((startIndex + i) % n) + 1]
      hits == {i \in 0..(n - 1) : Available(CategoryAt(i), cl.swipedItemIds) # <<>>}
  IN IF hits = {} THEN NoCategory
     ELSE CategoryAt(CHOOSE i \in hits : \A h \in hits : i <= h)

moveToNextCategory(r, cl) ==
  LET next == findNextCategoryWithItems(cl)
  IN IF next = NoCategory THEN r
     ELSE loadCategoryItems([r EXCEPT !.currentCategory = next,
                                      !.currentIndex = 0,
                                      !.itemsShownInCurrentCategory = 0],
                            next, cl)

\* the derived values of a render
availableItemsInCategory(r) ==
  SelectIn(r.itemsInCurrentCategory, Range(r.itemsInCurrentCategory) \ r.swipedItemIds)
safeIndex(r) ==
  IF r.currentIndex >= Len(availableItemsInCategory(r)) THEN 0 ELSE r.currentIndex
HasCurrentItem(r) == Len(availableItemsInCategory(r)) > 0
currentItem(r) == availableItemsInCategory(r)[safeIndex(r) + 1]

\* some category has an item not swiped
hasMoreItems(r) ==
  \E k \in DOMAIN Categories : Available(Categories[k], r.swipedItemIds) # <<>>

\* the screen "No more items!" is rendered
NoMoreItemsShown(r) ==
  ~r.loading /\ ~r.isAnalyzing /\ ~HasCurrentItem(r) /\ ~hasMoreItems(r)

\* the swipe screen with its buttons is rendered
ButtonsShown(r) == ~r.loading /\ ~r.isAnalyzing /\ HasCurrentItem(r)

\* no request is in flight
Quiet(r) ==
  /\ ~r.swipedLoadPending
  /\ r.pendingFetches = {}
  /\ r.pendingLoads = {}
  /\ r.pendingPrefs = {}

\* DashboardPage.handleLike / handleReject up to their await
handleLike(r, item, base) ==
  IF item \in base THEN r
  ELSE [r EXCEPT !.pendingPrefs = @ \cup {[kind |-> "like", item |-> item, base |-> base]}]

handleReject(r, item, base) ==
  IF item \in base THEN r
  ELSE [r EXCEPT !.pendingPrefs = @ \cup {[kind |-> "reject", item |-> item, base |-> base]}]

\* the scoring pass of loadCategoryItems over the answer of /api/recommend
\* ids of the answer that pass `score >= REJECTION_THRESHOLD` and `score > 0`, in order
AboveThreshold(items) ==
  LET kept == SelectIn([i \in DOMAIN items |-> i],
                       {i \in DOMAIN items : items[i].score >= RejectionThreshold
                                             /\ items[i].score > 0})
  IN [k \in DOMAIN kept |-> items[kept[k]].id]

\* ids of the answer with `score > -1`, in order
AboveSentinel(items) ==
  LET kept == SelectIn([i \in DOMAIN items |-> i],
                       {i \in DOMAIN items : items[i].score > -1 * Scale})
  IN [k \in DOMAIN kept |-> items[kept[k]].id]

\* the items the pass calls onReject for
AutoRejected(items, wishlistToUse) ==
  IF Cardinality(wishlistToUse) > 0
  THEN {items[i].id : i \in {j \in DOMAIN items : items[j].score < RejectionThreshold}}
  ELSE {}

\* the lists the pass can install as itemsInCurrentCategory
SortedItems(items, availableItems, wishlistToUse) ==
  IF Len(AboveThreshold(items)) > 0 THEN {AboveThreshold(items)}
  ELSE IF Cardinality(wishlistToUse) > 0 THEN {AboveSentinel(items)}
       ELSE Shuffles(availableItems)

RECURSIVE RejectAll(_, _, _)
RejectAll(r, ids, base) ==
  IF ids = <<>> THEN r
  ELSE RejectAll(handleReject(r, Head(ids), base), Tail(ids), base)

----------------------------------------------------------------------------
(* The actions of the session *)

\* GET /api/user/swiped answers: setSwipedItemIds(new Set(data.swipedItems))
SwipedLoaded ==
  /\ swipedLoadPending
  /\ Commit(Cur, [Cur EXCEPT !.swipedItemIds = savedSwiped, !.swipedLoadPending = FALSE],
            Event("other"))
  /\ UNCHANGED <<scoreVars, cacheVars, outfitVars>>

\* /api/items answers a run of fetchItems
FetchItemsDone ==
  \E f \in pendingFetches :
    LET r == [Cur EXCEPT !.pendingFetches = @ \ {f}, !.loading = FALSE]
        resume == /\ f.currentCategory # NoCategory
                  /\ Available(f.currentCategory, f.swipedItemIds) # <<>>
        first == FirstCategoryWithItems(f.swipedItemIds)
    IN /\ Commit(Cur,
                 IF resume THEN loadCategoryItems(r, f.currentCategory, f)
                 ELSE IF first = NoCategory THEN r
                      ELSE loadCategoryItems([r EXCEPT !.currentCategory = first,
                                                       !.currentIndex = 0],
                                             first, f),
                 Event("other"))
       /\ UNCHANGED <<scoreVars, cacheVars, outfitVars>>

\* /api/recommend answers a run of loadCategoryItems
LoadCategoryItemsDone ==
  \E l \in pendingLoads :
    LET availableItems == Available(l.category, l.cl.swipedItemIds)
        answers == POST([allItemsInCategory |-> List(availableItems),
                         wishlist |-> List(SeqOfSet(l.cl.wishlist)),
                         rejectedItems |-> List(SeqOfSet(l.cl.rejectedItems))],
                        imageFeatures)
    IN \E answer \in answers :
       \E sortedItems \in SortedItems(answer.items, availableItems, l.cl.wishlist) :
         LET r == [Cur EXCEPT !.pendingLoads = @ \ {l},
                              !.itemsInCurrentCategory = sortedItems,
                              !.currentIndex = 0,
                              !.itemsShownInCurrentCategory =
                                 IF l.cl.currentCategory # l.category THEN 0 ELSE @,
                              !.isAnalyzing = FALSE]
             rejects == SeqOfSet(AutoRejected(answer.items, l.cl.wishlist))
         IN /\ Commit(Cur, RejectAll(r, rejects, l.cl.rejectedItems),
                      [name |-> "loadCategoryItems", autoRejected |-> Range(rejects),
                       genuine |-> /\ answer.method = "visual-similarity"
                                   /\ getWishlistFeatures(SeqOfSet(l.cl.wishlist),
                                                          imageFeatures) # <<>>])
            /\ UNCHANGED <<scoreVars, cacheVars, outfitVars>>

\* the POST of a handleLike / handleReject answers ok
PreferenceSaved ==
  \E p \in pendingPrefs :
    /\ Commit(Cur,
              IF p.kind = "like"
              THEN [Cur EXCEPT !.pendingPrefs = @ \ {p}, !.wishlist = p.base \cup {p.item}]
              ELSE [Cur EXCEPT !.pendingPrefs = @ \ {p}, !.rejectedItems = p.base \cup {p.item}],
              Event("other"))
    /\ UNCHANGED <<scoreVars, cacheVars, outfitVars>>

\* the user, who waits for the requests in flight to answer, presses like or
\* dislike: handleAction up to its setTimeout
HandleAction ==
  /\ ButtonsShown(Cur)
  /\ ~isProcessingAction
  /\ Quiet(Cur)
  /\ LET item == currentItem(Cur)
         r == [Cur EXCEPT !.isProcessingAction = TRUE,
                          !.swipedItemIds = @ \cup {item},
                          !.pendingTimer =
                             [item |-> item,
                              newItemsShown |-> itemsShownInCurrentCategory + 1,
                              items |-> itemsInCurrentCategory,
                              cl |-> ClosureOf(Cur)]]
     IN \E action \in {IF item \in userTaste THEN "like" ELSE "dislike"} :
          Commit(Cur,
                 IF action = "like" THEN handleLike(r, item, wishlist)
                 ELSE handleReject(r, item, rejectedItems),
                 Event("other"))
  /\ UNCHANGED <<scoreVars, cacheVars, outfitVars>>

\* the 400 ms timer of handleAction fires
ActionTimerFires ==
  /\ pendingTimer # NoTimer
  /\ LET t == pendingTimer
         remainingItems == {x \in Range(t.items) :
                              x # t.item /\ x \notin (t.cl.swipedItemIds \cup {t.item})}
         r == [Cur EXCEPT !.pendingTimer = NoTimer, !.isProcessingAction = FALSE]
     IN Commit(Cur,
               IF t.newItemsShown >= ITEMS_PER_CATEGORY \/ Cardinality(remainingItems) <= 0
               THEN moveToNextCategory([r EXCEPT !.itemsShownInCurrentCategory = 0], t.cl)
               ELSE [r EXCEPT !.itemsShownInCurrentCategory = t.newItemsShown,
                              !.currentIndex = 0],
               Event("actionTimer"))
  /\ UNCHANGED <<scoreVars, cacheVars, outfitVars>>

\* the 100 ms timer of the auto-move effect fires, the requests in flight having
\* answered within its delay
CategoryExhausted ==
  /\ Len(availableItemsInCategory(Cur)) = 0
  /\ currentCategory # NoCategory
  /\ ~isAnalyzing
  /\ Quiet(Cur)
  /\ Commit(Cur, moveToNextCategory(Cur, ClosureOf(Cur)), Event("other"))
  /\ UNCHANGED <<scoreVars, cacheVars, outfitVars>>

\* an undo that takes back a swipe whatever the index
Undone_Unguarded(r) ==
  [r EXCEPT !.itemsShownInCurrentCategory = IF @ > 0 THEN @ - 1 ELSE 0,
            !.currentIndex = IF @ > 0 THEN @ - 1 ELSE 0]

\* an undo that takes an item out of the swiped set whatever the index
Undone_TakesBack(r) ==
  IF r.swipedItemIds = {} THEN r
  ELSE [r EXCEPT !.swipedItemIds = @ \ {CHOOSE x \in @ : TRUE}]

\* handleUndo; its button is disabled while currentIndex is 0
Undone(r) ==
  IF safeIndex(r) > 0
  THEN LET r1 == [r EXCEPT !.currentIndex = @ - 1]
           at == safeIndex(r) - 1
       IN IF at + 1 \in DOMAIN availableItemsInCategory(r)
          THEN [r1 EXCEPT !.swipedItemIds = @ \ {availableItemsInCategory(r)[at + 1]}]
          ELSE r1
  ELSE r

\* the user presses undo
HandleUndo ==
  /\ ButtonsShown(Cur)
  /\ Commit(Cur, Undone(Cur), Event("handleUndo"))
  /\ UNCHANGED <<scoreVars, cacheVars, outfitVars>>

----------------------------------------------------------------------------
(* Specifications.  Each runs one part; the other parts stay at rest. *)

\* the scoring route at rest
ScoreIdle ==
  /\ body = [allItemsInCategory |-> Missing, wishlist |-> Missing, rejectedItems |-> Missing]
  /\ imageFeatures = <<>>
  /\ response = NoResponse
  /\ previousResponse = NoResponse

\* the embeddings are in the module variable, loaded once
CacheIdle ==
  /\ artifact = FileMissing
  /\ loaded = TRUE
  /\ loads = 1
  /\ inFlight = 0
  /\ served = 0

\* the outfit route at rest
OutfitIdle ==
  /\ likedItems = Missing
  /\ groqApiKey = FALSE
  /\ outfitPc = "idle"
  /\ groqReply = NoReply
  /\ outfitResponse = NoOutfitResponse

\* no session mounted
SessionIdle ==
  /\ swipedItemIds = {}
  /\ currentCategory = NoCategory
  /\ itemsInCurrentCategory = <<>>
  /\ currentIndex = 0
  /\ isAnalyzing = FALSE
  /\ isProcessingAction = FALSE
  /\ loading = TRUE
  /\ itemsShownInCurrentCategory = 0
  /\ wishlist = {}
  /\ rejectedItems = {}
  /\ savedSwiped = {}
  /\ userTaste = {}
  /\ swipedLoadPending = FALSE
  /\ pendingFetches = {}
  /\ pendingLoads = {}
  /\ pendingPrefs = {}
  /\ pendingTimer = NoTimer
  /\ lastEvent = Event("other")

ScoreInit ==
  /\ CacheIdle
  /\ OutfitIdle
  /\ SessionIdle
  /\ imageFeatures \in Stores
  /\ body \in [allItemsInCategory : CandidateFields,
               wishlist : ReferenceFields,
               rejectedItems : ReferenceFields]
  /\ response = NoResponse
  /\ previousResponse = NoResponse

Recommend ==
  /\ response = NoResponse
  /\ response' \in POST(body, imageFeatures)
  /\ UNCHANGED <<body, imageFeatures, previousResponse>>
  /\ UNCHANGED <<cacheVars, outfitVars, sessionVars>>

\* the same request is sent a second time; the module keeps its store
RecommendAgain ==
  /\ response # NoResponse
  /\ previousResponse = NoResponse
  /\ previousResponse' = response
  /\ response' \in POST(body, imageFeatures)
  /\ UNCHANGED <<body, imageFeatures>>
  /\ UNCHANGED <<cacheVars, outfitVars, sessionVars>>

ScoreNext == Recommend \/ RecommendAgain

SpecScore == ScoreInit /\ [][ScoreNext]_vars

----------------------------------------------------------------------------
(* The cache specification: a server process answers requests one after the *)
(* other or overlapping, while the file on disk may be written              *)

CacheStores == {<<>>, [id \in {"A"} |-> <<1, 0>>],
                [id \in {"A", "B"} |-> IF id = "A" THEN <<1, 0>> ELSE <<3, 4>>]}

Artifacts == {FileMissing, FileCorrupt} \cup {FileJson(m) : m \in CacheStores}

CacheBodies ==
  {[allItemsInCategory |-> List(<<"A", "B">>), wishlist |-> List(<<"A">>),
    rejectedItems |-> Missing],
   [allItemsInCategory |-> Missing, wishlist |-> Missing, rejectedItems |-> Missing]}

\* the process starts: the module variable imageFeatures is null
CacheInit ==
  /\ OutfitIdle
  /\ SessionIdle
  /\ body = [allItemsInCategory |-> Missing, wishlist |-> Missing, rejectedItems |-> Missing]
  /\ imageFeatures = <<>>
  /\ response = NoResponse
  /\ previousResponse = NoResponse
  /\ artifact \in Artifacts
  /\ loaded = FALSE
  /\ loads = 0
  /\ inFlight = 0
  /\ served = 0

\* a request arrives, passes the token checks and awaits its body
RequestArrives ==
  /\ inFlight + served < MaxRequests
  /\ inFlight' = inFlight + 1
  /\ UNCHANGED <<artifact, loaded, loads, served>>
  /\ UNCHANGED <<scoreVars, outfitVars, sessionVars>>

\* the body of a request is read and the handler runs to its end: nothing in
\* it awaits, so no other request runs in between
RequestHandled ==
  /\ inFlight > 0
  /\ inFlight' = inFlight - 1
  /\ served' = served + 1
  /\ \E b \in CacheBodies :
       /\ body' = b
       /\ IF b.allItemsInCategory.kind # "list"
          THEN /\ response' = ErrorResponse(400)
               /\ UNCHANGED <<imageFeatures, loaded, loads>>
          ELSE LET got == getImageFeatures(artifact, loaded, imageFeatures)
               IN /\ loads' = IF got.called THEN loads + 1 ELSE loads
                  /\ loaded' = got.isLoaded
                  /\ imageFeatures' = got.featuresMap
                  /\ IF got.threw
                     \* the catch block: allItemsInCategory is an array
                     THEN response' \in {OkResponse(items, "random") :
                                           items \in RandomItems(b.allItemsInCategory.items)}
                     ELSE response' \in Recommendations(b, got.featuresMap)
  /\ UNCHANGED <<artifact, previousResponse>>
  /\ UNCHANGED <<outfitVars, sessionVars>>

\* the feature extraction writes, truncates or removes the file
ArtifactWritten ==
  /\ artifact' \in Artifacts \ {artifact}
  /\ UNCHANGED <<loaded, loads, inFlight, served>>
  /\ UNCHANGED <<scoreVars, outfitVars, sessionVars>>

CacheNext == RequestArrives \/ RequestHandled \/ ArtifactWritten

SpecCache == CacheInit /\ [][CacheNext]_vars

OutfitInit ==
  /\ ScoreIdle
  /\ CacheIdle
  /\ SessionIdle
  /\ likedItems \in LikedFields
  /\ groqApiKey \in BOOLEAN
  /\ outfitPc = "idle"
  /\ groqReply = NoReply
  /\ outfitResponse = NoOutfitResponse

\* the handler up to the call of the LLM
OutfitRequest ==
  /\ outfitPc = "idle"
  /\ IF InsufficientInput(likedItems)
     THEN outfitPc' = "done" /\ outfitResponse' = OutfitError(400)
     ELSE IF ~groqApiKey
          THEN outfitPc' = "done" /\ outfitResponse' = OutfitError(500)
          ELSE outfitPc' = "calling" /\ UNCHANGED outfitResponse
  /\ UNCHANGED <<likedItems, groqApiKey, groqReply>>
  /\ UNCHANGED <<scoreVars, cacheVars, sessionVars>>

\* the LLM endpoint answers and the handler finishes
OutfitReply ==
  /\ outfitPc = "calling"
  /\ \E reply \in GroqReplies :
       /\ groqReply' = reply
       /\ outfitResponse' = AfterGroq(likedItems.items, reply)
  /\ outfitPc' = "done"
  /\ UNCHANGED <<likedItems, groqApiKey>>
  /\ UNCHANGED <<scoreVars, cacheVars, sessionVars>>

OutfitNext == OutfitRequest \/ OutfitReply

SpecOutfit == OutfitInit /\ [][OutfitNext]_vars

\* the server runs the handler of a request that has arrived; whether and when the
\* LLM endpoint answers is not in the server's hands, and the handler sets no
\* timer and passes no AbortSignal to fetch
SpecOutfitLive == OutfitInit /\ [][OutfitNext]_vars /\ WF_vars(OutfitRequest)


\* what the database holds when the dashboard mounts: a new user, a user who swiped
\* and rejected every hat in an earlier session, and a user who liked the first dress
SavedProfiles ==
  {[swiped |-> {}, liked |-> {}, rejected |-> {}],
   [swiped |-> Range(ItemsByCategory("hat")), liked |-> {},
    rejected |-> Range(ItemsByCategory("hat"))],
   [swiped |-> {<<"dress", 1>>}, liked |-> {<<"dress", 1>>}, rejected |-> {}]}

\* the users: one likes nothing, one likes everything, one likes the odd-numbered
\* items, one likes only a dress that has no embedding
Tastes == {{}, Range(AllItems), {x \in Range(AllItems) : x[2] % 2 = 1}, {<<"dress", 4>>}}

\* SwipeInterface mounts: DashboardPage has loaded the wishlist and the rejected
\* items; the effects have started GET /api/user/swiped and fetchItems
SessionInit ==
  /\ OutfitIdle
  /\ CacheIdle
  /\ body = [allItemsInCategory |-> Missing, wishlist |-> Missing, rejectedItems |-> Missing]
  /\ imageFeatures = SessionFeatures
  /\ response = NoResponse
  /\ previousResponse = NoResponse
  /\ userTaste \in Tastes
  /\ \E profile \in SavedProfiles :
       /\ savedSwiped = profile.swiped
       /\ wishlist = profile.liked
       /\ rejectedItems = profile.rejected
       /\ pendingFetches = {[swipedItemIds |-> {}, currentCategory |-> NoCategory,
                             wishlist |-> profile.liked, rejectedItems |-> profile.rejected]}
  /\ swipedItemIds = {}
  /\ currentCategory = NoCategory
  /\ itemsInCurrentCategory = <<>>
  /\ currentIndex = 0
  /\ isAnalyzing = FALSE
  /\ isProcessingAction = FALSE
  /\ loading = TRUE
  /\ itemsShownInCurrentCategory = 0
  /\ swipedLoadPending = TRUE
  /\ pendingLoads = {}
  /\ pendingPrefs = {}
  /\ pendingTimer = NoTimer
  /\ lastEvent = Event("other")

Next ==
  \/ SwipedLoaded
  \/ FetchItemsDone
  \/ LoadCategoryItemsDone
  \/ PreferenceSaved
  \/ HandleAction
  \/ ActionTimerFires
  \/ CategoryExhausted
  \/ HandleUndo

Spec == SessionInit /\ [][Next]_vars

\* /api/items answers a run of fetchItems: the step of FetchItemsDone, told by what
\* it does to pendingFetches.  No other action takes a run out of the set, and a
\* run that finds its category exhausted restarts the effect for another category.
FetchAnswered ==
  \E f \in pendingFetches :
    \E restarted \in {{}} \cup {{[ClosureOf(Cur) EXCEPT !.currentCategory = c]} :
                                 c \in Range(Categories) \ {f.currentCategory}} :
      pendingFetches' = (pendingFetches \ {f}) \cup restarted

\* /api/recommend answers a run of loadCategoryItems: the step of
\* LoadCategoryItemsDone, told by what it does to pendingLoads
LoadAnswered == \E l \in pendingLoads : pendingLoads' = pendingLoads \ {l}

\* the 400 ms timer of handleAction fires: the step of ActionTimerFires, told by
\* what it does to pendingTimer
TimerFired == pendingTimer # NoTimer /\ pendingTimer' = NoTimer

\* the 100 ms timer of the auto-move effect fires and finds a category to move
\* to: the step of CategoryExhausted that starts a scoring call, told by what it
\* does to isAnalyzing while the timer of handleAction stays as it is
ExhaustedMoved ==
  /\ Len(availableItemsInCategory(Cur)) = 0
  /\ currentCategory # NoCategory
  /\ ~isAnalyzing
  /\ Quiet(Cur)
  /\ hasMoreItems(Cur)
  /\ isAnalyzing' = TRUE
  /\ pendingTimer' = pendingTimer

\* the session with its scheduling: every request in flight is answered and every
\* timer that stays armed fires; the user may stop pressing buttons at any time
SessionFairness ==
  /\ WF_vars(SwipedLoaded)
  /\ WF_pendingFetches(FetchAnswered)
  /\ WF_pendingLoads(LoadAnswered)
  /\ WF_vars(PreferenceSaved)
  /\ WF_pendingTimer(TimerFired)
  /\ WF_<<isAnalyzing, pendingTimer>>(ExhaustedMoved)

SpecLive == SessionInit /\ [][Next]_vars /\ SessionFairness

----------------------------------------------------------------------------
(* Claims about the scoring route, checked under SpecScore *)

\* C1: for every candidate, liked and rejected list, the list the scoring
\* operation returns is sorted non-increasing by score.
C1_SortedNonIncreasing ==
  \A i, j \in DOMAIN response.items :
     i < j => response.items[i].score >= response.items[j].score

\* C2: whenever the candidate list holds at least one candidate, the scoring
\* operation returns a non-empty list.
C2_NeverEmptyWhenCandidatesExist ==
  (response.status = 200 /\ Len(body.allItemsInCategory.items) > 0)
     => Len(response.items) > 0

Malformed(field) == field.kind # "list"

\* C10: a request whose candidate list or liked / rejected reference list is
\* malformed is answered 400, and every other request is answered successfully.
C10_InvalidInputFailsFast ==
  response # NoResponse =>
     IF Malformed(body.allItemsInCategory) \/ Malformed(body.wishlist)
           \/ Malformed(body.rejectedItems)
     THEN response.status = 400
     ELSE response.status = 200

\* C10 (amended): only a candidate list that is missing or not an array is answered
\* 400; every other request is answered 200, a missing liked / rejected list being
\* read as empty and one that cannot be iterated being absorbed into the random
\* fallback.
C10_OnlyMalformedCandidatesFail ==
  response # NoResponse =>
     response.status = IF Malformed(body.allItemsInCategory) THEN 400 ELSE 200

\* a request with candidates, a store with embeddings and a liked list that cannot
\* be iterated has been answered with the random fallback
C10_Witness ==
  /\ response.status = 200
  /\ response.method = "random"
  /\ DOMAIN imageFeatures # {}
  /\ body.wishlist.kind = "noniterable"
  /\ Len(response.items) > 0

\* no item of a reference field of the body has an embedding in the store
ResolvesToNothing(field) ==
  field.kind # "noniterable" /\ \A k \in DOMAIN field.items : field.items[k] \notin DOMAIN imageFeatures

\* every score of the response is a sentinel, -2 exactly for the ids without embedding
OnlySentinels ==
  \A i \in DOMAIN response.items :
     /\ response.items[i].score \in {NoWishlistScore * Scale, NoFeatureScore * Scale}
     /\ response.items[i].score = NoFeatureScore * Scale
          <=> response.items[i].id \notin DOMAIN imageFeatures

\* C11: if the liked list is empty or resolves to no embedding, every score
\* returned is -1 or -2, and -2 exactly for the candidates without an embedding.
C11_SentinelsWithoutLikedEmbedding ==
  (response.status = 200 /\ ResolvesToNothing(body.wishlist)) => OnlySentinels

\* C11 (amended): the same, provided the store holds at least one embedding and
\* the rejected list can be iterated; otherwise the scores are those of the
\* random fallback.
C11_SentinelsWithStoreAndIterableLists ==
  (/\ response.status = 200
   /\ ResolvesToNothing(body.wishlist)
   /\ DOMAIN imageFeatures # {}
   /\ body.rejectedItems.kind # "noniterable") => OnlySentinels

\* a liked list that is not empty but resolves to nothing has been answered with
\* both sentinels
C11_Witness ==
  /\ response.status = 200
  /\ Len(body.wishlist.items) > 0
  /\ ResolvesToNothing(body.wishlist)
  /\ OnlySentinels
  /\ \E i, j \in DOMAIN response.items :
        /\ response.items[i].score = NoWishlistScore * Scale
        /\ response.items[j].score = NoFeatureScore * Scale

\* C12: with an empty store, the response lists every candidate exactly once, is
\* tagged 'random', and its scores are strictly decreasing in the returned order.
C12_EmptyStoreGivesRandomPermutation ==
  (/\ response # NoResponse
   /\ DOMAIN imageFeatures = {}
   /\ body.allItemsInCategory.kind = "list") =>
     /\ response.status = 200
     /\ response.method = "random"
     /\ Len(response.items) = Len(body.allItemsInCategory.items)
     /\ {response.items[i].id : i \in DOMAIN response.items}
          = Range(body.allItemsInCategory.items)
     /\ \A i, j \in DOMAIN response.items :
          i < j => response.items[i].score > response.items[j].score

\* with an empty store and a liked list that is not empty, two candidates have
\* been returned in the order opposite to the request's
C12_Witness ==
  /\ response.status = 200
  /\ DOMAIN imageFeatures = {}
  /\ Len(body.wishlist.items) > 0
  /\ Len(response.items) = 2
  /\ response.items[1].id = body.allItemsInCategory.items[2]
  /\ response.items[1].score > response.items[2].score

\* the place of an id in the candidate list of the request
CandidateIndex(id) ==
  CHOOSE k \in DOMAIN body.allItemsInCategory.items : body.allItemsInCategory.items[k] = id

\* the response repeats the response to the same request sent before
SameAsBefore == previousResponse # NoResponse => response = previousResponse

\* candidates of equal score are returned in the order of the request
TiesInInputOrder ==
  \A i, j \in DOMAIN response.items :
     (i < j /\ response.items[i].score = response.items[j].score)
        => CandidateIndex(response.items[i].id) < CandidateIndex(response.items[j].id)

LikedRefs == SelectIn(body.wishlist.items, DOMAIN imageFeatures)
RejectedRefs == SelectIn(body.rejectedItems.items, DOMAIN imageFeatures)

\* similarity of a candidate to one reference: 1.0 for its own id, the cosine of
\* the two embeddings otherwise
SimTo(id, ref) ==
  IF id = ref THEN Scale ELSE cosineSimilarity(imageFeatures[ref], imageFeatures[id])

SimSum(id, refs) == SumSeq([k \in DOMAIN refs |-> SimTo(id, refs[k])])

\* score = SimSum(liked) / |liked| - 0.5 * SimSum(rejected) / |rejected|, without division
IsPenalisedAverage(score, id) ==
  IF Len(RejectedRefs) = 0
  THEN score * Len(LikedRefs) = SimSum(id, LikedRefs)
  ELSE score * 2 * Len(LikedRefs) * Len(RejectedRefs)
         = 2 * Len(RejectedRefs) * SimSum(id, LikedRefs)
             - Len(LikedRefs) * SimSum(id, RejectedRefs)

\* C14: when a liked embedding exists, the score of a candidate with an embedding is
\* the average of its similarities to the liked embeddings minus 0.5 times the
\* average of its similarities to the rejected embeddings (same id counts as 1.0);
\* with no rejected embedding it is the plain average.
C14_ScoreIsPenalisedAverage ==
  (response.status = 200 /\ response.method = "visual-similarity") =>
     \A i \in DOMAIN response.items :
        response.items[i].id \in DOMAIN imageFeatures
          => IsPenalisedAverage(response.items[i].score, response.items[i].id)

\* a returned candidate was scored against two rejected embeddings, one of them
\* its own, and a liked embedding that is not its own
C14_Witness ==
  /\ response.status = 200 /\ response.method = "visual-similarity"
  /\ Len(RejectedRefs) = 2
  /\ \E i \in DOMAIN response.items :
        /\ response.items[i].id \in Range(RejectedRefs)
        /\ response.items[i].id \notin Range(LikedRefs)
        /\ response.items[i].score \notin {0, Scale}

\* The scenario of C15 with whole-number norms: A = (1,0), B = (0,1) and C = (3,4)
\* standing for (0.9,0.1), a vector between A and B that is parallel to neither;
\* liked = [A], candidates = [B, C], rejected = [C]
PenaltyScenario ==
  /\ DOMAIN imageFeatures = {"A", "B", "C"}
  /\ imageFeatures["A"] = <<1, 0>>
  /\ imageFeatures["B"] = <<0, 1>>
  /\ imageFeatures["C"] = <<3, 4>>
  /\ body.wishlist = List(<<"A">>)
  /\ body.allItemsInCategory = List(<<"B", "C">>)
  /\ body.rejectedItems = List(<<"C">>)

ScoreOf(resp, id) ==
  LET k == CHOOSE k \in DOMAIN resp.items : resp.items[k].id = id
  IN resp.items[k].score

\* the response to the same request with rejected = []
WithoutPenalty ==
  CHOOSE r \in POST([body EXCEPT !.rejectedItems = List(<<>>)], imageFeatures) : TRUE

ScoredC(resp) == \E k \in DOMAIN resp.items : resp.items[k].id = "C"

\* C15: in the scenario, changing rejected from [] to [C] lowers the score of C by
\* exactly 0.5 * cosine(A, C).
C15_PenaltyIsHalfCosineToLiked ==
  (PenaltyScenario /\ response.status = 200) =>
     /\ ScoredC(response) /\ ScoredC(WithoutPenalty)
     /\ ScoreOf(response, "C") =
          ScoreOf(WithoutPenalty, "C")
            - cosineSimilarity(imageFeatures["A"], imageFeatures["C"]) \div 2

\* C15 (amended): in the scenario, changing rejected from [] to [C] lowers the score
\* of C by exactly 0.5: the only rejected reference is C itself, which counts 1.0.
C15_PenaltyIsHalfOfSelfMatch ==
  (PenaltyScenario /\ response.status = 200) =>
     /\ ScoredC(response) /\ ScoredC(WithoutPenalty)
     /\ ScoreOf(response, "C") = ScoreOf(WithoutPenalty, "C") - Scale \div 2

\* the request of the scenario has been answered, C with a lower score than before
C15_Witness ==
  /\ PenaltyScenario
  /\ response.status = 200 /\ response.method = "visual-similarity"
  /\ ScoredC(response)
  /\ ScoreOf(response, "C") < ScoreOf(WithoutPenalty, "C")

\* the two vectors differ in length, or one of them has norm 0
Degenerate(vecA, vecB) ==
  \/ Len(vecA) # Len(vecB)
  \/ DotProduct(vecA, vecA) = 0
  \/ DotProduct(vecB, vecB) = 0

\* a candidate scored against a single liked embedding of another id and against no
\* rejected embedding: its score is its cosine similarity to that embedding
ScoredAgainstOne(i) ==
  /\ response.status = 200 /\ response.method = "visual-similarity"
  /\ Len(LikedRefs) = 1 /\ Len(RejectedRefs) = 0
  /\ response.items[i].id \in DOMAIN imageFeatures
  /\ response.items[i].id # LikedRefs[1]

\* C25: cosineSimilarity is 0 for two vectors of different length and 0 when
\* either vector has norm 0, for every pair of vectors of the store and in every
\* score the route returns that is the similarity of such a pair.
C25_ZeroForMismatchedOrNullVectors ==
  /\ \A x, y \in DOMAIN imageFeatures :
        Degenerate(imageFeatures[x], imageFeatures[y])
          => cosineSimilarity(imageFeatures[x], imageFeatures[y]) = 0
  /\ \A i \in DOMAIN response.items :
        (/\ ScoredAgainstOne(i)
         /\ Degenerate(imageFeatures[LikedRefs[1]], imageFeatures[response.items[i].id]))
           => response.items[i].score = 0

\* the route has returned the similarity of a pair of different length and that of
\* a pair with a vector of norm 0
C25_Witness ==
  /\ \E i \in DOMAIN response.items :
        /\ ScoredAgainstOne(i)
        /\ Len(imageFeatures[response.items[i].id]) # Len(imageFeatures[LikedRefs[1]])
  /\ \E i \in DOMAIN response.items :
        /\ ScoredAgainstOne(i)
        /\ DotProduct(imageFeatures[response.items[i].id], imageFeatures[response.items[i].id]) = 0
        /\ DotProduct(imageFeatures[LikedRefs[1]], imageFeatures[LikedRefs[1]]) # 0

----------------------------------------------------------------------------
(* Claims about the cache of the embeddings, checked under SpecCache *)

\* C22: within one process the embedding file is loaded at most once, whatever
\* the sequence or overlap of requests and whatever the state of the file.
C22_LoadedAtMostOnce == loads <= 1

----------------------------------------------------------------------------
(* Claims about the outfit route, checked under SpecOutfit *)

\* C5: with at least 2 liked items and a non-success answer of the LLM call, the
\* route returns the deterministic fallback outfit (one item per category in
\* first-seen order, at most 5, non-empty, method 'fallback'), not an error.
C5_LlmFailureGivesFallback ==
  (outfitPc = "done" /\ groqReply.kind = "http_error")
     => /\ outfitResponse = FallbackResponse(likedItems.items)
        /\ Len(outfitResponse.outfit) > 0

\* C16: every successful outfit response holds between 2 and 5 items, on the
\* 'groq' path and on the 'fallback' path.
C16_OutfitHasTwoToFiveItems ==
  outfitResponse.status = 200 => Len(outfitResponse.outfit) \in 2..5

\* the ids of the LLM's answer that are ids of liked items, in the LLM's order
LikedIds == {likedItems.items[i].id : i \in DOMAIN likedItems.items}
ValidReplyIndexes == {k \in DOMAIN groqReply.ids : groqReply.ids[k] \in LikedIds}
LikedItemOf(id) == CHOOSE item \in Range(likedItems.items) : item.id = id
ReplyCategory(k) == ToLowerCase(LikedItemOf(groqReply.ids[k]).category)

\* the valid ids that are the first of their category in the LLM's order
FirstOfCategoryInReply ==
  {k \in ValidReplyIndexes : \A j \in ValidReplyIndexes : j < k => ReplyCategory(j) # ReplyCategory(k)}

\* C17: in a successful outfit response every item is a liked item, no two items
\* have the same category (compared in lower case), and on the 'groq' path the
\* items are exactly the liked items of the LLM's ids that are the first of their
\* category in the LLM's order, ids that are not liked being left out.
C17_LikedItemsOnePerCategory ==
  outfitResponse.status = 200 =>
    /\ \A i \in DOMAIN outfitResponse.outfit :
          outfitResponse.outfit[i] \in Range(likedItems.items)
    /\ \A i, j \in DOMAIN outfitResponse.outfit :
          i # j => ToLowerCase(outfitResponse.outfit[i].category)
                     # ToLowerCase(outfitResponse.outfit[j].category)
    /\ outfitResponse.method = "groq" =>
          /\ Range(outfitResponse.outfit)
                = {LikedItemOf(groqReply.ids[k]) : k \in FirstOfCategoryInReply}
          /\ Len(outfitResponse.outfit) = Cardinality(FirstOfCategoryInReply)

\* the LLM named two liked items of one category, the second of the liked list
\* first, and the response keeps the one the LLM named first
C17_Witness ==
  /\ outfitResponse.status = 200 /\ outfitResponse.method = "groq"
  /\ likedItems.items[1].id = "o1"
  /\ groqReply.ids = <<"o2", "o1">>
  /\ outfitResponse.outfit = <<[id |-> "o2", category |-> "Shirt"]>>

\* the places of the liked list that hold the first item of a category, the
\* categories compared in lower case as the route compares them
FirstSeen ==
  {i \in DOMAIN likedItems.items :
     \A j \in DOMAIN likedItems.items :
        j < i => ToLowerCase(likedItems.items[j].category) # ToLowerCase(likedItems.items[i].category)}

NthFirstSeen(n) == CHOOSE i \in FirstSeen : Cardinality({j \in FirstSeen : j < i}) = n - 1

NothingValid ==
  \/ groqReply.kind = "unparseable"
  \/ groqReply.kind \in {"outfit", "outfit_not_array"} /\ ValidReplyIndexes = {}

\* C18: when the LLM's answer cannot be parsed or names no liked id, the response
\* is the fallback: the first-seen liked item of each category, in first-seen
\* order, at most 5 of them, method 'fallback'.
C18_FallbackIsFirstSeenPerCategory ==
  (outfitPc = "done" /\ NothingValid) =>
    /\ outfitResponse.status = 200
    /\ outfitResponse.method = "fallback"
    /\ Len(outfitResponse.outfit) = (IF Cardinality(FirstSeen) < 5 THEN Cardinality(FirstSeen) ELSE 5)
    /\ \A n \in DOMAIN outfitResponse.outfit :
          outfitResponse.outfit[n] = likedItems.items[NthFirstSeen(n)]

\* the fallback answered an unparseable reply for six liked items of six categories
C18_Witness ==
  /\ outfitPc = "done"
  /\ groqReply.kind = "unparseable"
  /\ Cardinality(FirstSeen) > 5
  /\ Len(outfitResponse.outfit) = 5

\* C19: with fewer than 2 liked items, or a liked-items value that is not a list,
\* the route answers 400 and the LLM is never called.
C19_TooFewLikedItemsIsRefused ==
  (likedItems.kind # "list" \/ Len(likedItems.items) < 2) =>
    /\ outfitPc # "calling"
    /\ groqReply = NoReply
    /\ outfitPc = "done" => outfitResponse.status = 400

\* a request with one liked item and a configured key has been refused
C19_Witness ==
  /\ likedItems.kind = "list" /\ Len(likedItems.items) = 1
  /\ groqApiKey
  /\ outfitPc = "done"
  /\ outfitResponse.status = 400

\* C24: every outfit request completes: a request that has called the LLM is
\* eventually answered, and when the call ended without an answer of the LLM
\* (fetch rejected) the answer is the fallback outfit.
C24_OutfitRequestCompletes ==
  (outfitPc = "calling") ~>
     (/\ outfitPc = "done"
      /\ groqReply.kind = "network_error" => outfitResponse.method = "fallback")

----------------------------------------------------------------------------
(* Claims about the swipe session, checked under Spec *)

\* C20: the liked set and the rejected set of the user are disjoint at all times.
C20_LikedAndRejectedDisjoint == wishlist \cap rejectedItems = {}

\* C21: once the saved swiped set has been loaded, every liked item and every
\* rejected item, the auto-rejected ones included, is in the swiped set.
C21_SwipedCoversLikedAndRejected ==
  ~swipedLoadPending => (wishlist \cup rejectedItems) \subseteq swipedItemIds

\* C26: no preference update is lost: when the request of a like or of a reject
\* has succeeded, the liked and rejected lists hold the item and every item they
\* held before, so that later scoring calls get every item that was persisted.
C26_NoPreferenceUpdateLost ==
  [][PreferenceSaved =>
       /\ wishlist \subseteq wishlist'
       /\ rejectedItems \subseteq rejectedItems']_vars

\* C27: whenever the swipe screen is displayed (no loading or analysing screen in
\* its place), the candidate list holds only items of the active category: the
\* answer of a scoring call made for another category is never installed under it.
C27_ListIsOfActiveCategory ==
  (~loading /\ ~isAnalyzing) =>
    \A x \in Range(itemsInCurrentCategory) : x[1] = currentCategory

\* C28: the session always makes progress: while some category has an item not
\* swiped, an item is eventually presented to the user, and once none has, the
\* screen "No more items!" is eventually reached.
C28_SessionMakesProgress ==
  /\ hasMoreItems(Cur) ~> ButtonsShown(Cur)
  /\ ~hasMoreItems(Cur) ~> NoMoreItemsShown(Cur)

\* C29: the count of items shown in the active category is always at least 0 and
\* less than ITEMS_PER_CATEGORY, and it is 0 right after every change of the
\* active category.
C29_ShownCountBoundedAndReset ==
  /\ [](itemsShownInCurrentCategory \in 0..(ITEMS_PER_CATEGORY - 1))
  /\ [][currentCategory' # currentCategory => itemsShownInCurrentCategory' = 0]_vars

\* C3: a scoring pass of loadCategoryItems calls onReject for a candidate only when
\* the liked reference set was non-empty, that is when the scores it read are
\* similarity scores, never when they are sentinels or random-fallback scores.
C3_AutoRejectOnlyOnGenuineScores ==
  (lastEvent.name = "loadCategoryItems" /\ lastEvent.autoRejected # {})
     => lastEvent.genuine

\* C4: the list a scoring pass displays and the set of items that pass
\* auto-rejected are disjoint.
C4_AutoRejectedNotDisplayed ==
  lastEvent.name = "loadCategoryItems"
     => Range(itemsInCurrentCategory) \cap lastEvent.autoRejected = {}

\* the items of the displayed list that the press left unswiped
TimerRemaining ==
  {x \in Range(pendingTimer.items) :
     x \notin pendingTimer.cl.swipedItemIds \cup {pendingTimer.item}}

\* a category other than the closure's still has an item the closure holds unswiped
OtherCategoryHasItems(cl) ==
  \E k \in DOMAIN Categories :
     /\ Categories[k] # cl.currentCategory
     /\ Available(Categories[k], cl.swipedItemIds) # <<>>

\* C6: every like or dislike increments the shown count of the active category,
\* and the fifth in a category that is not exhausted changes the active category
\* to a new category and resets the shown count to 0.
C6_RotationAfterFive ==
  [][(ActionTimerFires /\ TimerRemaining # {}) =>
       IF pendingTimer.newItemsShown >= ITEMS_PER_CATEGORY
       THEN /\ currentCategory' # currentCategory
            /\ itemsShownInCurrentCategory' = 0
       ELSE itemsShownInCurrentCategory' = itemsShownInCurrentCategory + 1]_vars

\* C6 (amended): when the timer of a like or dislike fires in a category that is
\* not exhausted, the shown count becomes one more than it was at the press; when
\* that makes 5, the shown count is reset to 0 instead and the active category
\* becomes another category that has an unswiped item if there is one, and stays
\* the category of the press, which is loaded again, if there is none.
C6_RotationToCategoryWithItems ==
  [][(ActionTimerFires /\ TimerRemaining # {}) =>
       IF pendingTimer.newItemsShown >= ITEMS_PER_CATEGORY
       THEN /\ itemsShownInCurrentCategory' = 0
            /\ IF OtherCategoryHasItems(pendingTimer.cl)
               THEN /\ currentCategory' # pendingTimer.cl.currentCategory
                    /\ Available(currentCategory', pendingTimer.cl.swipedItemIds) # <<>>
               ELSE /\ currentCategory' = pendingTimer.cl.currentCategory
                    /\ \E l \in pendingLoads' : l.category = currentCategory'
       ELSE /\ itemsShownInCurrentCategory' = pendingTimer.newItemsShown
            /\ currentCategory' = currentCategory]_vars

\* the fifth press in the dresses has rotated the session to the hats while a
\* dress was still unswiped
C6_Witness ==
  /\ lastEvent.name = "actionTimer"
  /\ currentCategory = "hat"
  /\ itemsShownInCurrentCategory = 0
  /\ Cardinality({x \in swipedItemIds : x[1] = "dress"}) = ITEMS_PER_CATEGORY
  /\ Available("dress", swipedItemIds) # <<>>

\* the first category, in sorted order from just after `category` and wrapping
\* around to it, that has an item outside `swiped`; NoCategory if there is none
NextCategoryAfter(category, swiped) ==
  LET n == Len(Categories)
      at == {k \in DOMAIN Categories : Categories[k] = category}
      start == IF at = {} THEN 0 ELSE CHOOSE k \in at : TRUE
      Nth(i) == Categories[((start + i) % n) + 1]
      hits == {i \in 0..(n - 1) : Available(Nth(i), swiped) # <<>>}
  IN IF hits = {} THEN NoCategory ELSE Nth(CHOOSE i \in hits : \A h \in hits : i <= h)

\* the step is a rotation or an exhaustion: the timer of a press fires at the limit
\* of 5 or with nothing left in the list, or the auto-move effect fires
RotationStep ==
  \/ /\ ActionTimerFires
     /\ \/ pendingTimer.newItemsShown >= ITEMS_PER_CATEGORY
        \/ TimerRemaining = {}
  \/ CategoryExhausted

\* C23: on rotation or exhaustion the active category becomes the first category,
\* in sorted order from just after the current one and wrapping around, that has
\* an item outside the swiped set (which holds the item just swiped); when there
\* is none, the active category, the index and the candidate list stay as they are.
C23_NextCategoryInOrder ==
  [][RotationStep =>
       LET next == NextCategoryAfter(currentCategory, swipedItemIds)
       IN IF next # NoCategory
          THEN currentCategory' = next
          ELSE /\ currentCategory' = currentCategory
               /\ currentIndex' = currentIndex
               /\ itemsInCurrentCategory' = itemsInCurrentCategory]_vars

\* C7: after at least one swipe in the active category, undo removes the most
\* recently swiped item from the swiped set and decrements the shown count by one.
C7_UndoRevertsLastSwipe ==
  [][(HandleUndo /\ itemsShownInCurrentCategory > 0) =>
       /\ itemsShownInCurrentCategory' = itemsShownInCurrentCategory - 1
       /\ \E x \in swipedItemIds : swipedItemIds' = swipedItemIds \ {x}]_vars

\* C8: undo invoked while the index is 0 leaves the swiped set, the current
\* index, the shown count and the active category unchanged.
C8_UndoAtIndexZeroIsNoOp ==
  [][(HandleUndo /\ currentIndex = 0) =>
       UNCHANGED <<swipedItemIds, currentIndex, itemsShownInCurrentCategory,
                   currentCategory>>]_vars

\* undo has been invoked at index 0 after a swipe in the active category
C8_Witness ==
  /\ lastEvent.name = "handleUndo"
  /\ currentIndex = 0
  /\ itemsShownInCurrentCategory > 0
  /\ swipedItemIds # {}

\* C30: currentIndex is 0 in every reachable state, so the index the undo handler
\* reads is 0 as well, and no press of like, dislike or undo takes an item out of
\* the swiped set.
C30_IndexStaysZeroAndNothingIsUnswiped ==
  /\ [](currentIndex = 0 /\ safeIndex(Cur) = 0)
  /\ [][(HandleAction \/ HandleUndo) => swipedItemIds \subseteq swipedItemIds']_vars

\* undo has been invoked after the user swiped two items or more in this session
C30_Witness ==
  /\ lastEvent.name = "handleUndo"
  /\ Cardinality(swipedItemIds \ savedSwiped) >= 2
  /\ currentIndex = 0

\* C9: whenever the size of the liked set or of the rejected set changes while a
\* category is active, a rescoring of the current category is triggered.
C9_PreferenceChangeTriggersRescoring ==
  [][(/\ currentCategory # NoCategory
      /\ \/ Cardinality(wishlist') # Cardinality(wishlist)
         \/ Cardinality(rejectedItems') # Cardinality(rejectedItems)) =>
       \E l \in pendingLoads' \ pendingLoads : l.category = currentCategory']_vars

====
